---- MODULE Spec2Model ----
(***************************************************************************)
(* Model of src/app.py: the invoice scanner's upload flow (image intake,   *)
(* image load, model call, reply clean-up and JSON parsing, database       *)
(* write) and its two read operations.                                     *)
(*                                                                         *)
(* Texts are sequences of characters.  A character is a one-character      *)
(* string, except the backquote, which the TLA+ lexer does not accept      *)
(* inside a string and which is therefore the token BackTick.              *)
(* Python values (the results of json.loads) are records                   *)
(*   [type, lex, elems]                                                    *)
(* type  : "null" (None), "true", "false", "num", "str", "arr", "obj"      *)
(* lex   : the lexeme of a number / the characters of a string             *)
(* elems : the members of a list or dict, records [k, v] (k = <<>> in a    *)
(*         list); a dict keeps its keys in first-insertion order.          *)
(***************************************************************************)
EXTENDS Integers, Sequences, FiniteSets, TLC

BackTick == "backtick"

(* ---------------------------------------------------------------- text *)

StripWs == {" ", "\t", "\n", "\r", "\f"}
JsonWs == {" ", "\t", "\n", "\r"}
Digits == {"0", "1", "2", "3", "4", "5", "6", "7", "8", "9"}

FenceOpen == <<BackTick, BackTick, BackTick, "j", "s", "o", "n">>
FenceClose == <<BackTick, BackTick, BackTick>>

startswith(s, p) == Len(s) >= Len(p) /\ SubSeq(s, 1, Len(p)) = p

endswith(s, p) == Len(s) >= Len(p) /\ SubSeq(s, Len(s) - Len(p) + 1, Len(s)) = p

\* s[n:]
DropFirst(s, n) == SubSeq(s, n + 1, Len(s))

\* s[:-n]
DropLast(s, n) == SubSeq(s, 1, Len(s) - n)

RECURSIVE lstrip(_)
lstrip(s) == IF s # <<>> /\ Head(s) \in StripWs THEN lstrip(Tail(s)) ELSE s

RECURSIVE rstrip(_)
rstrip(s) == IF s # <<>> /\ s[Len(s)] \in StripWs THEN rstrip(DropLast(s, 1)) ELSE s

strip(s) == rstrip(lstrip(s))

(* --------------------------------------------------------- Python values *)

PyNone == [type |-> "null", lex |-> <<>>, elems |-> <<>>]
PyTrue == [type |-> "true", lex |-> <<>>, elems |-> <<>>]
PyFalse == [type |-> "false", lex |-> <<>>, elems |-> <<>>]
PyNum(lexeme) == [type |-> "num", lex |-> lexeme, elems |-> <<>>]
PyStr(chars) == [type |-> "str", lex |-> chars, elems |-> <<>>]
PyList(items) == [type |-> "arr", lex |-> <<>>, elems |-> items]
PyDict(members) == [type |-> "obj", lex |-> <<>>, elems |-> members]

\* the mantissa of a number lexeme: the part before an exponent
RECURSIVE Mantissa(_)
Mantissa(lexeme) ==
    IF lexeme = <<>> \/ Head(lexeme) \in {"e", "E"} THEN <<>>
    ELSE <<Head(lexeme)>> \o Mantissa(Tail(lexeme))

\* bool(v), as in "if extracted:" and "if invoice_id:"
\* (a number is zero iff its mantissa has no nonzero digit; exact while the exponent
\* does not underflow)
Truthy(v) ==
    CASE v.type = "null" -> FALSE
      [] v.type = "false" -> FALSE
      [] v.type = "true" -> TRUE
      [] v.type = "num" -> \E i \in 1..Len(Mantissa(v.lex)) :
                               Mantissa(v.lex)[i] \notin {"0", "-", "."}
      [] v.type = "str" -> v.lex # <<>>
      [] OTHER -> v.elems # <<>>

\* d[key] = value on a dict's members: a repeated key keeps its place, takes the new value
RECURSIVE DictPut(_, _, _)
DictPut(members, key, value) ==
    IF members = <<>> THEN <<[k |-> key, v |-> value]>>
    ELSE IF Head(members).k = key THEN <<[k |-> key, v |-> value]>> \o Tail(members)
    ELSE <<Head(members)>> \o DictPut(Tail(members), key, value)

\* dict.get(key, default)
RECURSIVE DictGet(_, _, _)
DictGet(members, key, default) ==
    IF members = <<>> THEN default
    ELSE IF Head(members).k = key THEN Head(members).v
    ELSE DictGet(Tail(members), key, default)

(* ------------------------------------------------------------ json.loads *)
\* A parse result is [ok, val, pos]: pos is the index after the value.

ParseFail == [ok |-> FALSE, val |-> PyNone, pos |-> 0]
ParseOk(value, next) == [ok |-> TRUE, val |-> value, pos |-> next]

CharAt(s, i) == IF i >= 1 /\ i <= Len(s) THEN s[i] ELSE "EOF"

Matches(s, i, word) ==
    i + Len(word) - 1 <= Len(s) /\ SubSeq(s, i, i + Len(word) - 1) = word

RECURSIVE SkipWs(_, _)
SkipWs(s, i) == IF CharAt(s, i) \in JsonWs THEN SkipWs(s, i + 1) ELSE i

RECURSIVE SkipDigits(_, _)
SkipDigits(s, i) == IF CharAt(s, i) \in Digits THEN SkipDigits(s, i + 1) ELSE i

\* py_scanstring, strict: ends at the next quote; a control character is an error
\* (the texts of this model hold no backslash, so escapes are not decoded)
RECURSIVE ScanString(_, _, _)
ScanString(s, i, acc) ==
    LET c == CharAt(s, i) IN
    IF c = "\"" THEN ParseOk(PyStr(acc), i + 1)
    ELSE IF c \in {"EOF", "\n", "\t", "\r", "\f", "\\"} THEN ParseFail
    ELSE ScanString(s, i + 1, Append(acc, c))

\* NUMBER_RE = (-?(?:0|[1-9]\d*))(\.\d+)?([eE][-+]?\d+)?
ScanNumber(s, i) ==
    LET i0 == IF CharAt(s, i) = "-" THEN i + 1 ELSE i
        intEnd == IF CharAt(s, i0) = "0" THEN i0 + 1
                  ELSE IF CharAt(s, i0) \in Digits THEN SkipDigits(s, i0)
                  ELSE 0
        fracEnd == IF CharAt(s, intEnd) = "." /\ CharAt(s, intEnd + 1) \in Digits
                   THEN SkipDigits(s, intEnd + 1) ELSE intEnd
        e0 == IF CharAt(s, fracEnd + 1) \in {"+", "-"} THEN fracEnd + 2 ELSE fracEnd + 1
        expEnd == IF CharAt(s, fracEnd) \in {"e", "E"} /\ CharAt(s, e0) \in Digits
                  THEN SkipDigits(s, e0) ELSE fracEnd
    IN IF intEnd = 0 THEN ParseFail
       ELSE ParseOk(PyNum(SubSeq(s, i, expEnd - 1)), expEnd)

W_null == <<"n", "u", "l", "l">>
W_true == <<"t", "r", "u", "e">>
W_false == <<"f", "a", "l", "s", "e">>
W_NaN == <<"N", "a", "N">>
W_Infinity == <<"I", "n", "f", "i", "n", "i", "t", "y">>
W_NegInfinity == <<"-">> \o W_Infinity

RECURSIVE ScanOnce(_, _)
RECURSIVE ParseArrayItems(_, _, _)
RECURSIVE ParseObjectMembers(_, _, _)

\* JSONArray after the first value position: i is at the start of a value
ParseArrayItems(s, i, acc) ==
    LET item == ScanOnce(s, i)
        j == SkipWs(s, item.pos)
    IN IF ~item.ok THEN ParseFail
       ELSE IF CharAt(s, j) = "]"
            THEN ParseOk(PyList(Append(acc, [k |-> <<>>, v |-> item.val])), j + 1)
       ELSE IF CharAt(s, j) = ","
            THEN ParseArrayItems(s, SkipWs(s, j + 1), Append(acc, [k |-> <<>>, v |-> item.val]))
       ELSE ParseFail

\* JSONObject: i is at the opening quote of a member's name
ParseObjectMembers(s, i, acc) ==
    IF CharAt(s, i) # "\"" THEN ParseFail
    ELSE
    LET key == ScanString(s, i + 1, <<>>)
        colon == SkipWs(s, key.pos)
        value == ScanOnce(s, SkipWs(s, colon + 1))
        j == SkipWs(s, value.pos)
    IN IF ~key.ok \/ CharAt(s, colon) # ":" THEN ParseFail
       ELSE IF ~value.ok THEN ParseFail
       ELSE IF CharAt(s, j) = "}"
            THEN ParseOk(PyDict(DictPut(acc, key.val.lex, value.val)), j + 1)
       ELSE IF CharAt(s, j) = ","
            THEN ParseObjectMembers(s, SkipWs(s, j + 1), DictPut(acc, key.val.lex, value.val))
       ELSE ParseFail

\* json.scanner.py_make_scanner._scan_once
ScanOnce(s, i) ==
    LET c == CharAt(s, i) IN
    IF c = "EOF" THEN ParseFail
    ELSE IF c = "\"" THEN ScanString(s, i + 1, <<>>)
    ELSE IF c = "{" THEN
        IF CharAt(s, SkipWs(s, i + 1)) = "}" THEN ParseOk(PyDict(<<>>), SkipWs(s, i + 1) + 1)
        ELSE ParseObjectMembers(s, SkipWs(s, i + 1), <<>>)
    ELSE IF c = "[" THEN
        IF CharAt(s, SkipWs(s, i + 1)) = "]" THEN ParseOk(PyList(<<>>), SkipWs(s, i + 1) + 1)
        ELSE ParseArrayItems(s, SkipWs(s, i + 1), <<>>)
    ELSE IF c = "n" /\ Matches(s, i, W_null) THEN ParseOk(PyNone, i + 4)
    ELSE IF c = "t" /\ Matches(s, i, W_true) THEN ParseOk(PyTrue, i + 4)
    ELSE IF c = "f" /\ Matches(s, i, W_false) THEN ParseOk(PyFalse, i + 5)
    ELSE IF ScanNumber(s, i).ok THEN ScanNumber(s, i)
    ELSE IF c = "N" /\ Matches(s, i, W_NaN) THEN ParseOk(PyNum(W_NaN), i + 3)
    ELSE IF c = "I" /\ Matches(s, i, W_Infinity) THEN ParseOk(PyNum(W_Infinity), i + 8)
    ELSE IF c = "-" /\ Matches(s, i, W_NegInfinity) THEN ParseOk(PyNum(W_NegInfinity), i + 9)
    ELSE ParseFail

\* json.loads(s): [ok, val]; ok = FALSE stands for JSONDecodeError
json_loads(s) ==
    LET r == ScanOnce(s, SkipWs(s, 1))
    IN IF r.ok /\ SkipWs(s, r.pos) = Len(s) + 1 THEN [ok |-> TRUE, val |-> r.val]
       ELSE [ok |-> FALSE, val |-> PyNone]

(* ------------------------------------------------------------ the texts *)

Q == "\""
JsonStr(chars) == <<Q>> \o chars \o <<Q>>
Member(key, text) == JsonStr(key) \o <<":">> \o text
Obj1(m1) == <<"{">> \o m1 \o <<"}">>
Obj2(m1, m2) == <<"{">> \o m1 \o <<",">> \o m2 \o <<"}">>
Obj3(m1, m2, m3) == <<"{">> \o m1 \o <<",">> \o m2 \o <<",">> \o m3 \o <<"}">>
Arr1(t1) == <<"[">> \o t1 \o <<"]">>
Arr2(t1, t2) == <<"[">> \o t1 \o <<",">> \o t2 \o <<"]">>

\* the keys read by save_invoice_to_db
K_supplier == <<"s", "u", "p", "p", "l", "i", "e", "r">>
K_invoice_date == <<"i", "n", "v", "o", "i", "c", "e", "_", "d", "a", "t", "e">>
K_total_amount == <<"t", "o", "t", "a", "l", "_", "a", "m", "o", "u", "n", "t">>
K_tax == <<"t", "a", "x">>
K_line_items == <<"l", "i", "n", "e", "_", "i", "t", "e", "m", "s">>
K_description == <<"d", "e", "s", "c", "r", "i", "p", "t", "i", "o", "n">>
K_quantity == <<"q", "u", "a", "n", "t", "i", "t", "y">>
K_unit_price == <<"u", "n", "i", "t", "_", "p", "r", "i", "c", "e">>
K_amount == <<"a", "m", "o", "u", "n", "t">>

T_Acme == JsonStr(<<"A", "c", "m", "e">>)
T_Amount == <<"1", "2", "0", ".", "5">>

\* {}
ObjEmpty == <<"{", "}">>
\* {"supplier":"Acme"}
ObjSupplier == Obj1(Member(K_supplier, T_Acme))
\* {"supplier":"Acme","total_amount":120.5,"tax":null}
ObjNoItems == Obj3(Member(K_supplier, T_Acme), Member(K_total_amount, T_Amount),
                   Member(K_tax, W_null))
\* {"line_items":[]}
ObjOnlyItems == Obj1(Member(K_line_items, <<"[", "]">>))
\* {"supplier":"Acme","line_items":[{"quantity":2,"amount":120.5},{}]}
ObjTwoItems == Obj2(Member(K_supplier, T_Acme),
                    Member(K_line_items,
                           Arr2(Obj2(Member(K_quantity, <<"2">>), Member(K_amount, T_Amount)),
                                ObjEmpty)))
\* {"tax":0,"line_items":[{"description":"Acme"}]}
ObjOneItem == Obj2(Member(K_tax, <<"0">>),
                   Member(K_line_items, Arr1(Obj1(Member(K_description, T_Acme)))))
\* {"supplier":[]}               a value sqlite3 cannot bind: the header INSERT fails
ObjBadHeader == Obj1(Member(K_supplier, <<"[", "]">>))
\* {"line_items":[{},1]}         the second entry has no .get
ObjBadItem == Obj1(Member(K_line_items, Arr2(ObjEmpty, <<"1">>)))
\* {"tax":0,"line_items":null}   None is not iterable
ObjNullItems == Obj2(Member(K_tax, <<"0">>), Member(K_line_items, W_null))
\* {"line_items":[{"amount":[]}]}  the line-item INSERT fails at commit
ObjBadAmount == Obj1(Member(K_line_items, Arr1(Obj1(Member(K_amount, <<"[", "]">>)))))

\* JSON object texts
JsonObjectTexts ==
    {ObjEmpty, ObjSupplier, ObjNoItems, ObjOnlyItems, ObjTwoItems, ObjOneItem,
     ObjBadHeader, ObjBadItem, ObjNullItems, ObjBadAmount}

\* valid JSON whose top-level value is not an object
NonObjectTexts ==
    {<<"[", "1", "]">>, <<"[", "]">>, T_Acme, <<Q, Q>>, <<"5">>, <<"0">>,
     W_true, W_false, W_null}

\* text that is not JSON
NotJson == <<"n", "o", "t", " ", "j", "s", "o", "n">>
InvalidTexts ==
    {NotJson, <<>>, <<"{">>, <<"{", "}", "}">>,
     <<"{">> \o JsonStr(K_tax) \o <<":", "}">>}

wrap_in_fence(j) == FenceOpen \o <<"\n">> \o j \o <<"\n">> \o FenceClose

Paddings == {<<>>, <<" ">>, <<"\n">>, <<"\n", " ">>}

(* --------------------------------------------------------------- bounds *)

\* headers the store may hold
MaxInvoices == 3
\* files in one upload
MaxFiles == 2
\* values of the clock read by created_at's default
MaxTime == 3

(* ---------------------------------------------------------------- state *)

VARIABLES
    disk,               \* uploaded_images/: file name -> content ("absent" if no file)
    invoice_header,     \* table invoice_header, rows in rowid order
    invoice_line_items, \* table invoice_line_items, rows in rowid order
    journal,            \* the open transaction's rollback journal
    session_new,        \* line items added to the session, not yet flushed
    pc,                 \* position of the script run
    uploaded_files,     \* the files of the current upload
    written,            \* the writes made by save_uploaded_images, in order
    paths,              \* result of save_uploaded_images
    result_text,        \* response.text
    extracted,          \* result of extract_invoice_data_with_gemini
    header_id,          \* header.id after the flush
    item_idx,           \* position of the line-item loop
    invoice_id,         \* result of save_invoice_to_db
    outcome,            \* what the run reported
    steps,              \* the steps the run has taken, in order
    before,             \* the tables when save_invoice_to_db was called
    page,               \* st.session_state.page
    rendered,           \* the page body the last run executed
    invoices,           \* the list page's get_all_invoices()
    detail              \* the detail page's invoice

vars == <<disk, invoice_header, invoice_line_items, journal, session_new, pc,
          uploaded_files, written, paths, result_text, extracted, header_id, item_idx,
          invoice_id, outcome, steps, before, page, rendered, invoices, detail>>

storeVars == <<invoice_header, invoice_line_items, journal, session_new,
               header_id, item_idx, invoice_id, before>>
readVars == <<page, rendered, invoices, detail>>

Names == {"a.jpg", "b.jpg"}
Contents == {"img", "corrupt"}
NoId == 0

\* the uploads: sequences of at most MaxFiles files
Uploads == UNION {[1..n -> [name : Names, content : Contents]] : n \in 0..MaxFiles}

NoJournal == [open |-> FALSE, invoice_header |-> <<>>, invoice_line_items |-> <<>>]
NoTables == [invoice_header |-> <<>>, invoice_line_items |-> <<>>]
NoDetail == [status |-> "none", id |-> NoId, row |-> <<>>, line_items |-> <<>>]

Init ==
    /\ disk = [n \in Names |-> "absent"]
    /\ invoice_header = <<>>
    /\ invoice_line_items = <<>>
    /\ journal = NoJournal
    /\ session_new = <<>>
    /\ pc = "idle"
    /\ uploaded_files = <<>>
    /\ written = <<>>
    /\ paths = <<>>
    /\ result_text = <<>>
    /\ extracted = PyNone
    /\ header_id = NoId
    /\ item_idx = 0
    /\ invoice_id = NoId
    /\ outcome = "none"
    /\ steps = <<>>
    /\ before = NoTables
    /\ page = "upload"
    /\ rendered = "none"
    /\ invoices = <<>>
    /\ detail = NoDetail

(* --------------------------------------------------------- image intake *)

\* os.path.join("uploaded_images", file.name)
FilePath(name) == <<"uploaded_images", "/", name>>

\* save_uploaded_images returning the paths in reverse order
RECURSIVE save_uploaded_images_Reversed(_, _)
save_uploaded_images_Reversed(acc, files) ==
    IF files = <<>> THEN acc
    ELSE LET file == Head(files)
             file_path == FilePath(file.name)
         IN save_uploaded_images_Reversed(
                [disk |-> [acc.disk EXCEPT ![file.name] = file.content],
                 written |-> Append(acc.written, [path |-> file_path, content |-> file.content]),
                 paths |-> <<file_path>> \o acc.paths],
                Tail(files))

\* the loop of save_uploaded_images: [disk, written, paths] after the files are written
RECURSIVE save_uploaded_images(_, _)
save_uploaded_images(acc, files) ==
    IF files = <<>> THEN acc
    ELSE LET file == Head(files)
             file_path == FilePath(file.name)
         IN save_uploaded_images(
                [disk |-> [acc.disk EXCEPT ![file.name] = file.content],
                 written |-> Append(acc.written, [path |-> file_path, content |-> file.content]),
                 paths |-> Append(acc.paths, file_path)],
                Tail(files))

\* ",".join(image_paths)
RECURSIVE JoinPaths(_)
JoinPaths(ps) ==
    IF ps = <<>> THEN <<>>
    ELSE IF Len(ps) = 1 THEN Head(ps)
    ELSE Head(ps) \o <<",">> \o JoinPaths(Tail(ps))

\* Image.open(path) succeeds on every path
ImagesLoad(d, ps) == \A i \in 1..Len(ps) : d[ps[i][3]] = "img"

(* ------------------------------------------------------- reply clean-up *)

\* the clean-up removing one character too few of the opening marker
ParseReplyText_ShortPrefix(text) ==
    LET t1 == IF startswith(text, FenceOpen) THEN DropFirst(text, 6) ELSE text
        t2 == IF endswith(t1, FenceClose) THEN DropLast(t1, 3) ELSE t1
        r == json_loads(strip(t2))
    IN IF r.ok THEN r.val ELSE PyNone

\* lines 92-103: the fence markers are removed, the rest is stripped and parsed;
\* any exception gives None
ParseReplyText(text) ==
    LET t1 == IF startswith(text, FenceOpen) THEN DropFirst(text, 7) ELSE text
        t2 == IF endswith(t1, FenceClose) THEN DropLast(t1, 3) ELSE t1
        r == json_loads(strip(t2))
    IN IF r.ok THEN r.val ELSE PyNone

(* ---------------------------------------------------------------- store *)

RECURSIVE MaxRowId(_)
MaxRowId(rows) ==
    IF rows = <<>> THEN 0
    ELSE LET m == MaxRowId(Tail(rows)) IN IF Head(rows).id > m THEN Head(rows).id ELSE m

\* values sqlite3 can bind for a String column
Bindable(v) == v.type \notin {"arr", "obj"}

\* values to_float accepts for a Float column
FloatBindable(v) ==
    \/ v.type \in {"null", "num", "true", "false"}
    \/ /\ v.type = "str"
       /\ LET t == strip(v.lex) IN ScanNumber(t, 1).ok /\ ScanNumber(t, 1).pos = Len(t) + 1

\* for item in v: the items, or TypeError
Iterate(v) ==
    CASE v.type = "arr" -> [ok |-> TRUE, items |-> [i \in 1..Len(v.elems) |-> v.elems[i].v]]
      [] v.type = "obj" -> [ok |-> TRUE, items |-> [i \in 1..Len(v.elems) |-> PyStr(v.elems[i].k)]]
      [] v.type = "str" -> [ok |-> TRUE, items |-> [i \in 1..Len(v.lex) |-> PyStr(<<v.lex[i]>>)]]
      [] OTHER -> [ok |-> FALSE, items |-> <<>>]

\* the InvoiceHeader built at lines 109-115, as inserted by the flush
NewHeader(data, image_paths, id, now) ==
    [id |-> id,
     supplier |-> DictGet(data.elems, K_supplier, PyNone),
     invoice_date |-> DictGet(data.elems, K_invoice_date, PyNone),
     total_amount |-> DictGet(data.elems, K_total_amount, PyNone),
     tax |-> DictGet(data.elems, K_tax, PyNone),
     image_paths |-> JoinPaths(image_paths),
     created_at |-> now]

HeaderBindable(h) ==
    /\ Bindable(h.supplier) /\ Bindable(h.invoice_date)
    /\ FloatBindable(h.total_amount) /\ FloatBindable(h.tax)

\* a line item built without its header's id
NewLine_NoHeaderId(item, hid) ==
    [id |-> NoId,
     header_id |-> NoId,
     description |-> DictGet(item.elems, K_description, PyNone),
     quantity |-> DictGet(item.elems, K_quantity, PyNone),
     unit_price |-> DictGet(item.elems, K_unit_price, PyNone),
     amount |-> DictGet(item.elems, K_amount, PyNone)]

\* the InvoiceLineItem built at lines 120-126
NewLine(item, hid) ==
    [id |-> NoId,
     header_id |-> hid,
     description |-> DictGet(item.elems, K_description, PyNone),
     quantity |-> DictGet(item.elems, K_quantity, PyNone),
     unit_price |-> DictGet(item.elems, K_unit_price, PyNone),
     amount |-> DictGet(item.elems, K_amount, PyNone)]

LineBindable(l) ==
    /\ Bindable(l.description)
    /\ FloatBindable(l.quantity) /\ FloatBindable(l.unit_price) /\ FloatBindable(l.amount)

\* the flush of the pending line items: each gets the next rowid
InsertLines(table, lines) ==
    table \o [i \in 1..Len(lines) |-> [lines[i] EXCEPT !.id = MaxRowId(table) + i]]

\* a rollback that leaves the flushed rows in place
Rollback_NoRestore(tables, jrnl) == tables

\* session.rollback(): the tables as the journal recorded them
Rollback(tables, jrnl) ==
    IF jrnl.open
    THEN [invoice_header |-> jrnl.invoice_header, invoice_line_items |-> jrnl.invoice_line_items]
    ELSE tables

Tables == [invoice_header |-> invoice_header, invoice_line_items |-> invoice_line_items]

\* what a reader on another connection sees
Committed == Rollback(Tables, journal)

ItemsOf(data) == Iterate(DictGet(data.elems, K_line_items, PyList(<<>>)))

\* a sort that puts a row before the rows of equal created_at
RECURSIVE InsertByCreatedAtDesc_TiesFirst(_, _)
InsertByCreatedAtDesc_TiesFirst(sorted, row) ==
    IF sorted = <<>> THEN <<row>>
    ELSE IF Head(sorted).created_at > row.created_at
         THEN <<Head(sorted)>> \o InsertByCreatedAtDesc_TiesFirst(Tail(sorted), row)
    ELSE <<row>> \o sorted

\* ORDER BY created_at DESC over a rowid scan; SQLite's sorter keeps equal keys in scan order
RECURSIVE InsertByCreatedAtDesc(_, _)
InsertByCreatedAtDesc(sorted, row) ==
    IF sorted = <<>> THEN <<row>>
    ELSE IF Head(sorted).created_at >= row.created_at
         THEN <<Head(sorted)>> \o InsertByCreatedAtDesc(Tail(sorted), row)
    ELSE <<row>> \o sorted

RECURSIVE OrderByCreatedAtDesc(_, _)
OrderByCreatedAtDesc(sorted, rows) ==
    IF rows = <<>> THEN sorted
    ELSE OrderByCreatedAtDesc(InsertByCreatedAtDesc(sorted, Head(rows)), Tail(rows))

get_all_invoices == OrderByCreatedAtDesc(<<>>, Committed.invoice_header)

\* the object get_invoice_detail returns: .first() of the rows with that id, or None;
\* its line_items are not loaded and its session is closed
NoInvoice == [found |-> FALSE, row |-> <<>>, session_open |-> FALSE]
RowsWithId(rows, id) == SelectSeq(rows, LAMBDA r : r.id = id)
get_invoice_detail(id) ==
    LET hits == RowsWithId(Committed.invoice_header, id)
    IN IF hits = <<>> THEN NoInvoice
       ELSE [found |-> TRUE, row |-> Head(hits), session_open |-> FALSE]

\* invoice.line_items: the lazy load needs the object's session
LinesOfHeader(rows, id) == SelectSeq(rows, LAMBDA r : r.header_id = id)
LazyLoadLineItems(invoice) ==
    IF invoice.session_open
    THEN [ok |-> TRUE, items |-> LinesOfHeader(Committed.invoice_line_items, invoice.row.id)]
    ELSE [ok |-> FALSE, items |-> <<>>]

(* ----------------------------------------------------------- the replies *)

\* the replies the model gives in the upload flow
Replies ==
    {ObjEmpty, ObjSupplier, ObjTwoItems, ObjBadHeader, ObjBadItem, ObjNullItems, ObjBadAmount,
     wrap_in_fence(ObjTwoItems), wrap_in_fence(ObjSupplier) \o <<"\n">>,
     <<"[", "1", "]">>, W_null, NotJson}

\* the uploads of the upload flow
FlowUploads ==
    {<<>>,
     <<[name |-> "a.jpg", content |-> "img"]>>,
     <<[name |-> "a.jpg", content |-> "img"], [name |-> "b.jpg", content |-> "corrupt"]>>}

\* the texts the clean-up is applied to: every text, bare and wrapped, padded outside
\* and inside the fence markers, with one marker only, and with another fence spelling
Cores == JsonObjectTexts \cup NonObjectTexts \cup InvalidTexts
PadOutside(p, text, q) == p \o text \o q
PadInside(p, j, q) == FenceOpen \o p \o j \o q \o FenceClose
NormInputs ==
    UNION {
        {PadOutside(p, j, q) : p \in Paddings, q \in Paddings}
        \cup {PadOutside(p, wrap_in_fence(j), q) : p \in Paddings, q \in Paddings}
        \cup {PadInside(p, j, q) : p \in Paddings, q \in Paddings}
        \cup {FenceOpen \o <<"\n">> \o j, j \o <<"\n">> \o FenceClose,
              <<BackTick, BackTick, BackTick, "J", "S", "O", "N", "\n">> \o j \o <<"\n">>
                  \o FenceClose}
        : j \in Cores}

(* -------------------------------------------------------------- actions *)

\* lines 194-199: "Process Invoice" is clicked with these files
ProcessInvoice(files) ==
    /\ pc = "idle"
    /\ Len(Committed.invoice_header) < MaxInvoices
    /\ uploaded_files' = files
    /\ page' = "upload" /\ rendered' = "upload" /\ invoices' = <<>> /\ detail' = NoDetail
    /\ IF files = <<>>
       THEN /\ pc' = "done"
            /\ outcome' = "no_image"
            /\ steps' = <<>>
            /\ UNCHANGED <<disk, written, paths>>
       ELSE LET r == save_uploaded_images([disk |-> disk, written |-> <<>>, paths |-> <<>>], files)
            IN /\ disk' = r.disk
               /\ written' = r.written
               /\ paths' = r.paths
               /\ pc' = "saved"
               /\ steps' = <<"intake">>
               /\ UNCHANGED outcome
    /\ UNCHANGED <<result_text, extracted>>
    /\ UNCHANGED storeVars

\* lines 78-86: Image.open on every path; the first failure returns None
LoadImages ==
    /\ pc = "saved"
    /\ steps' = Append(steps, "load")
    /\ IF ImagesLoad(disk, paths)
       THEN /\ pc' = "loaded"
            /\ UNCHANGED <<extracted, outcome>>
       ELSE /\ extracted' = PyNone
            /\ outcome' = "extraction_failed"
            /\ pc' = "done"
    /\ UNCHANGED <<disk, uploaded_files, written, paths, result_text>>
    /\ UNCHANGED storeVars
    /\ UNCHANGED readVars

\* lines 89-92: the model replies with some text
GenerateContent(reply) ==
    /\ pc = "loaded"
    /\ steps' = Append(steps, "call")
    /\ result_text' = reply
    /\ pc' = "replied"
    /\ UNCHANGED <<disk, uploaded_files, written, paths, extracted, outcome>>
    /\ UNCHANGED storeVars
    /\ UNCHANGED readVars

\* lines 89-90, 101-103: the call raises
GenerateContentFails ==
    /\ pc = "loaded"
    /\ steps' = Append(steps, "call")
    /\ extracted' = PyNone
    /\ outcome' = "extraction_failed"
    /\ pc' = "done"
    /\ UNCHANGED <<disk, uploaded_files, written, paths, result_text>>
    /\ UNCHANGED storeVars
    /\ UNCHANGED readVars

\* lines 93-103: the reply is cleaned and parsed
ParseReply ==
    /\ pc = "replied"
    /\ steps' = Append(steps, "normalize")
    /\ extracted' = ParseReplyText(result_text)
    /\ pc' = "extracted"
    /\ UNCHANGED <<disk, uploaded_files, written, paths, result_text, outcome>>
    /\ UNCHANGED storeVars
    /\ UNCHANGED readVars

\* lines 202, 213-214: "if extracted:" is false
ExtractionFailed ==
    /\ pc = "extracted"
    /\ ~Truthy(extracted)
    /\ outcome' = "extraction_failed"
    /\ pc' = "done"
    /\ UNCHANGED <<disk, uploaded_files, written, paths, result_text, extracted, steps>>
    /\ UNCHANGED storeVars
    /\ UNCHANGED readVars

\* the except branch of save_invoice_to_db: rollback, return None; then line 212
SaveFails(where) ==
    /\ invoice_header' = Rollback(Tables, journal).invoice_header
    /\ invoice_line_items' = Rollback(Tables, journal).invoice_line_items
    /\ journal' = NoJournal
    /\ session_new' = <<>>
    /\ invoice_id' = NoId
    /\ outcome' = where
    /\ pc' = "done"

\* lines 202-204, 107-117: "if extracted:" is true; the header is built, added and flushed
SaveHeader(now, fault) ==
    /\ pc = "extracted"
    /\ Truthy(extracted)
    /\ steps' = Append(steps, "save")
    /\ before' = Committed
    /\ IF extracted.type # "obj"
       THEN SaveFails("save_failed_header") /\ UNCHANGED <<header_id, item_idx>>
       ELSE LET header == NewHeader(extracted, paths, MaxRowId(invoice_header) + 1, now)
            IN IF fault \/ ~HeaderBindable(header)
               THEN SaveFails("save_failed_flush") /\ UNCHANGED <<header_id, item_idx>>
               ELSE /\ journal' = [open |-> TRUE, invoice_header |-> invoice_header,
                                   invoice_line_items |-> invoice_line_items]
                    /\ invoice_header' = Append(invoice_header, header)
                    /\ header_id' = header.id
                    /\ item_idx' = 1
                    /\ pc' = "items"
                    /\ UNCHANGED <<invoice_line_items, session_new, invoice_id, outcome>>
    /\ UNCHANGED <<disk, uploaded_files, written, paths, result_text, extracted>>
    /\ UNCHANGED readVars

\* lines 119-127: one turn of the loop over line_items
AddLineItem ==
    /\ pc = "items"
    /\ LET it == ItemsOf(extracted)
       IN /\ ~it.ok \/ item_idx <= Len(it.items)
          /\ IF ~it.ok
             THEN SaveFails("save_failed_items") /\ UNCHANGED item_idx
             ELSE IF it.items[item_idx].type # "obj"
             THEN SaveFails("save_failed_item") /\ UNCHANGED item_idx
             ELSE /\ session_new' = Append(session_new,
                                           NewLine(it.items[item_idx], header_id))
                  /\ item_idx' = item_idx + 1
                  /\ UNCHANGED <<invoice_header, invoice_line_items, journal, invoice_id,
                                 outcome, pc>>
    /\ UNCHANGED <<disk, uploaded_files, written, paths, result_text, extracted, steps>>
    /\ UNCHANGED <<header_id, before>>
    /\ UNCHANGED readVars

\* lines 129-130, 205-206: the loop is over; the line items are flushed and the
\* transaction committed
Commit(fault) ==
    /\ pc = "items"
    /\ ItemsOf(extracted).ok
    /\ item_idx > Len(ItemsOf(extracted).items)
    /\ IF fault \/ \E i \in 1..Len(session_new) : ~LineBindable(session_new[i])
       THEN SaveFails("save_failed_commit")
       ELSE /\ invoice_line_items' = InsertLines(invoice_line_items, session_new)
            /\ journal' = NoJournal
            /\ session_new' = <<>>
            /\ invoice_id' = header_id
            /\ outcome' = "saved"
            /\ pc' = "done"
            /\ UNCHANGED invoice_header
    /\ UNCHANGED <<disk, uploaded_files, written, paths, result_text, extracted, steps>>
    /\ UNCHANGED <<header_id, item_idx, before>>
    /\ UNCHANGED readVars

\* the script run ends: its locals are gone
EndRun ==
    /\ pc = "done"
    /\ pc' = "idle"
    /\ uploaded_files' = <<>> /\ written' = <<>> /\ paths' = <<>>
    /\ result_text' = <<>> /\ extracted' = PyNone
    /\ header_id' = NoId /\ item_idx' = 0 /\ invoice_id' = NoId
    /\ outcome' = "none" /\ steps' = <<>> /\ before' = NoTables
    /\ UNCHANGED <<disk, invoice_header, invoice_line_items, journal, session_new>>
    /\ UNCHANGED readVars

\* lines 217-233: the list page
ListPage ==
    /\ pc = "idle"
    /\ page' = "list"
    /\ rendered' = "list"
    /\ invoices' = get_all_invoices
    /\ detail' = NoDetail
    /\ UNCHANGED <<disk, uploaded_files, written, paths, result_text, extracted, outcome,
                   steps, pc>>
    /\ UNCHANGED storeVars

\* lines 236-287: the detail page with st.session_state.selected_invoice = selected
DetailPage(selected) ==
    /\ pc = "idle"
    /\ rendered' = "detail"
    /\ invoices' = <<>>
    /\ IF selected = NoId
       THEN /\ detail' = [NoDetail EXCEPT !.status = "no_selection"]
            /\ page' = "list"
       ELSE LET invoice == get_invoice_detail(selected)
                items == LazyLoadLineItems(invoice)
            IN IF ~invoice.found
               THEN /\ detail' = [NoDetail EXCEPT !.status = "not_found", !.id = selected]
                    /\ page' = "list"
               ELSE IF ~items.ok
               THEN /\ detail' = [status |-> "DetachedInstanceError", id |-> selected,
                                  row |-> invoice.row, line_items |-> <<>>]
                    /\ page' = "detail"
               ELSE /\ detail' = [status |-> "shown", id |-> selected,
                                  row |-> invoice.row, line_items |-> items.items]
                    /\ page' = "detail"
    /\ UNCHANGED <<disk, uploaded_files, written, paths, result_text, extracted, outcome,
                   steps, pc>>
    /\ UNCHANGED storeVars

Next ==
    \/ \E files \in FlowUploads : ProcessInvoice(files)
    \/ LoadImages
    \/ \E reply \in Replies : GenerateContent(reply)
    \/ GenerateContentFails
    \/ ParseReply
    \/ ExtractionFailed
    \/ \E now \in 1..MaxTime, fault \in BOOLEAN : SaveHeader(now, fault)
    \/ AddLineItem
    \/ \E fault \in BOOLEAN : Commit(fault)
    \/ EndRun
    \/ ListPage
    \/ \E selected \in 0..(MaxInvoices + 1) : DetailPage(selected)

Spec == Init /\ [][Next]_vars

\* image intake and image load alone, over every upload of at most MaxFiles files
NextIntake ==
    \/ \E files \in Uploads : ProcessInvoice(files)
    \/ LoadImages
    \/ GenerateContentFails
    \/ EndRun

SpecIntake == Init /\ [][NextIntake]_vars

\* the reply clean-up alone: a run that has received some text from the model
InitNorm ==
    /\ disk = [n \in Names |-> IF n = "a.jpg" THEN "img" ELSE "absent"]
    /\ invoice_header = <<>>
    /\ invoice_line_items = <<>>
    /\ journal = NoJournal
    /\ session_new = <<>>
    /\ pc = "replied"
    /\ uploaded_files = <<[name |-> "a.jpg", content |-> "img"]>>
    /\ written = <<[path |-> FilePath("a.jpg"), content |-> "img"]>>
    /\ paths = <<FilePath("a.jpg")>>
    /\ result_text \in NormInputs
    /\ extracted = PyNone
    /\ header_id = NoId
    /\ item_idx = 0
    /\ invoice_id = NoId
    /\ outcome = "none"
    /\ steps = <<"intake", "load", "call">>
    /\ before = NoTables
    /\ page = "upload"
    /\ rendered = "none"
    /\ invoices = <<>>
    /\ detail = NoDetail

NextNorm == ParseReply

SpecNorm == InitNorm /\ [][NextNorm]_vars

(* --------------------------------------------------------------- claims *)

Range(f) == {f[i] : i \in DOMAIN f}
HeaderIds(rows) == {rows[i].id : i \in DOMAIN rows}
IsPrefix(a, b) == Len(a) <= Len(b) /\ a = SubSeq(b, 1, Len(a))
SaveFailures ==
    {"save_failed_header", "save_failed_flush", "save_failed_items", "save_failed_item",
     "save_failed_commit"}

\* C1: when save_invoice_to_db fails, at whatever point (building the header, the
\* flush, starting the loop, building a line item, the commit), it returns no invoice
\* id and both tables hold exactly the rows they held before the call.
C1_AllOrNothing ==
    outcome \in SaveFailures =>
        /\ invoice_id = NoId
        /\ ~journal.open
        /\ invoice_header = before.invoice_header
        /\ invoice_line_items = before.invoice_line_items

\* a save that failed after the header was flushed, on a store that already held rows
C1_Witness ==
    /\ outcome = "save_failed_item"
    /\ session_new = <<>>
    /\ before.invoice_header # <<>>
    /\ before.invoice_line_items # <<>>

C2_ForeignKey ==
    /\ \A i \in DOMAIN invoice_line_items :
           invoice_line_items[i].header_id \in HeaderIds(invoice_header)
    /\ \A i \in DOMAIN Committed.invoice_line_items :
           Committed.invoice_line_items[i].header_id \in HeaderIds(Committed.invoice_header)

C2_SameTransaction ==
    \A i \in DOMAIN Committed'.invoice_line_items :
        LET line == Committed'.invoice_line_items[i]
        IN line \notin Range(Committed.invoice_line_items) =>
               \E j \in DOMAIN Committed'.invoice_header :
                   /\ Committed'.invoice_header[j].id = line.header_id
                   /\ Committed'.invoice_header[j] \notin Range(Committed.invoice_header)

\* C2: at every moment every line-item row references the id of a header row, in the
\* writer's view and in the committed tables, and line-item rows become persistent only
\* in the step that makes their header persistent.
C2_LineItemsHaveHeader == []C2_ForeignKey /\ [][C2_SameTransaction]_vars

\* two persisted invoices that have line items
C2_Witness ==
    /\ ~journal.open
    /\ Len(invoice_header) >= 2
    /\ \A h \in Range(invoice_header) :
           \E l \in Range(invoice_line_items) : l.header_id = h.id

\* C3 (as claimed): the clean-up returns the failure value for every reply, bare or
\* fence-wrapped, that is not JSON or is JSON whose top-level value is not an object.
C3_InvalidJSON ==
    pc = "extracted" =>
        \A j \in NonObjectTexts \cup InvalidTexts :
            result_text \in {j, wrap_in_fence(j)} => extracted = PyNone

\* C4: for every JSON object text j, the reply wrap_in_fence(j) is cleaned and parsed
\* to the value that the reply j is.
C4_FenceIdempotent ==
    pc = "extracted" =>
        \A j \in JsonObjectTexts :
            result_text = wrap_in_fence(j) => extracted = ParseReplyText(j)

\* the fenced object with two line items has been parsed to a dict with its members
C4_Witness ==
    /\ pc = "extracted"
    /\ result_text = wrap_in_fence(ObjTwoItems)
    /\ extracted.type = "obj"
    /\ Len(extracted.elems) = 2
    /\ Len(ItemsOf(extracted).items) = 2

\* C5: the list page's result holds every persisted header exactly once, by created_at
\* descending, headers of equal created_at in insertion (id) order.
C5_ListOrder ==
    rendered = "list" =>
        /\ Len(invoices) = Len(invoice_header)
        /\ \A h \in Range(invoice_header) :
               Cardinality({i \in DOMAIN invoices : invoices[i] = h}) = 1
        /\ \A i, j \in DOMAIN invoices :
               i < j => \/ invoices[i].created_at > invoices[j].created_at
                        \/ /\ invoices[i].created_at = invoices[j].created_at
                           /\ invoices[i].id < invoices[j].id

\* three headers listed, two of equal created_at, and not in insertion order
C5_Witness ==
    /\ rendered = "list"
    /\ Len(invoices) = 3
    /\ invoices[1].created_at = invoices[2].created_at
    /\ invoices[2].created_at > invoices[3].created_at
    /\ invoices[3].id = 1

\* C6 (as claimed): get_invoice_detail with an id no header has gives not-found; with a
\* persisted id it gives that header together with exactly its line items.
C6_GetInvoice ==
    detail.status \in {"not_found", "shown", "DetachedInstanceError"} =>
        IF detail.id \in HeaderIds(invoice_header)
        THEN /\ detail.status = "shown"
             /\ detail.row \in Range(invoice_header)
             /\ detail.row.id = detail.id
             /\ detail.line_items = LinesOfHeader(invoice_line_items, detail.id)
        ELSE detail.status = "not_found"

\* C7: after the intake of a non-empty upload there is one path per file, and the i-th
\* path is the one under which the i-th file's content was written.
C7_OneLocatorPerImage ==
    (pc # "idle" /\ uploaded_files # <<>>) =>
        /\ Len(paths) = Len(uploaded_files)
        /\ Len(written) = Len(uploaded_files)
        /\ \A i \in DOMAIN uploaded_files :
               /\ written[i].path = paths[i]
               /\ written[i].content = uploaded_files[i].content
               /\ paths[i] = <<"uploaded_images", "/", uploaded_files[i].name>>

\* two files of different names and contents have been taken in
C7_Witness ==
    /\ pc = "saved"
    /\ Len(uploaded_files) = 2
    /\ paths[1] # paths[2]
    /\ uploaded_files[1].content # uploaded_files[2].content

FlowOrder == <<"intake", "load", "call", "normalize", "save">>

C8_Order ==
    /\ IsPrefix(steps, FlowOrder)
    /\ Len(steps) >= 3 => ImagesLoad(disk, paths)
    /\ Len(steps) >= 5 => extracted.type = "obj"

C8_Abort ==
    /\ outcome = "extraction_failed" => steps' \in {steps, <<>>}
    /\ "save" \notin Range(steps') => UNCHANGED <<invoice_header, invoice_line_items>>

\* C8 (as claimed): the steps of a run are taken in the order intake, load, call,
\* normalize, save; the call is made only if every image loaded; save_invoice_to_db is
\* invoked only if the reply normalized to an object; a failed run takes no further
\* step, and a run that has not reached the save writes no row.
C8_LinearFlow == []C8_Order /\ [][C8_Abort]_vars

\* C9 (as claimed): a reply that parses to an object is never an extraction failure,
\* and when it is saved there is one new header, its absent fields null, and one line
\* item per entry of line_items.
C9_AbsentFieldsAreNull ==
    (pc = "done" /\ "normalize" \in Range(steps) /\ extracted.type = "obj") =>
        /\ outcome # "extraction_failed"
        /\ outcome = "saved" =>
               /\ Len(invoice_header) = Len(before.invoice_header) + 1
               /\ LET h == invoice_header[Len(invoice_header)]
                  IN /\ h.id = invoice_id
                     /\ h.supplier = DictGet(extracted.elems, K_supplier, PyNone)
                     /\ h.invoice_date = DictGet(extracted.elems, K_invoice_date, PyNone)
                     /\ h.total_amount = DictGet(extracted.elems, K_total_amount, PyNone)
                     /\ h.tax = DictGet(extracted.elems, K_tax, PyNone)
               /\ Len(LinesOfHeader(invoice_line_items, invoice_id))
                      = Len(ItemsOf(extracted).items)
               /\ Len(invoice_line_items)
                      = Len(before.invoice_line_items) + Len(ItemsOf(extracted).items)

\* C10 (as claimed): for every JSON object text j and all paddings p and q, the reply
\* p wrap_in_fence(j) q is cleaned and parsed to the value that the reply j is.
C10_TrimBeforeFence ==
    pc = "extracted" =>
        \A j \in JsonObjectTexts : \A p \in Paddings : \A q \in Paddings :
            result_text = PadOutside(p, wrap_in_fence(j), q) => extracted = ParseReplyText(j)

====
